---------------------------- MODULE Spec2Model ----------------------------
(***************************************************************************)
(* Participant session of the SFU (package rtc, type Participant).         *)
(*                                                                         *)
(* Every goroutine that can run a method of one Participant is a process   *)
(* with its own program counter; one action is one step of the source      *)
(* between two accesses of shared state.  The fields of Participant are    *)
(* accessed without synchronisation unless the source takes p.lock, so     *)
(* the steps of different goroutines interleave freely.                     *)
(***************************************************************************)
EXTENDS Integers, Sequences, FiniteSets, TLC

\* ------------------------------------------------------------- bounds
MaxICE        == 2   \* "connected" ICE callbacks the transport delivers
MaxClose      == 2   \* concurrent callers of Close
MaxNeg        == 1   \* firings of the negotiation-needed handler
MaxHandleNeg  == 1   \* inbound HandleNegotiate calls carrying an offer
MaxDownTracks == 1   \* down tracks attached to the session
MaxBatches    == 11  \* feedback batches producers put on rtcpCh
MaxStart      == 2   \* concurrent callers of Start
MaxPub        == 3   \* publish events (inbound tracks and data channels)
MaxTickTracks == 41  \* bound down tracks present when a tick is examined

\* ---------------------------------------------------- program constants
sdBatchSize == 20    \* const sdBatchSize
RtcpChCap   == 10    \* make(chan []rtcp.Packet, 10)
BurstLast   == 5     \* "if i > 5 { return }" in the binding burst loop

JOINING      == "JOINING"
JOINED       == "JOINED"
ACTIVE       == "ACTIVE"
DISCONNECTED == "DISCONNECTED"
States       == {JOINING, JOINED, ACTIVE, DISCONNECTED}

ICEs    == 1..MaxICE
Closers == 1..MaxClose
Negs    == 1..MaxNeg
HNegs   == 1..MaxHandleNeg
DTs     == 1..MaxDownTracks
Starters == 1..MaxStart
Pubs     == 1..MaxPub

\* The session modelled here is "p"; "op" is another participant, of which
\* only the lock is modelled.
Sessions == {"p", "op"}

\* A goroutine that holds a lock, and the value for "nobody".
NoHolder    == <<"none", 0>>
PubHolder(e) == <<"pub", e>>
SubHolder    == <<"sub", 1>>
RSubHolder   == <<"rsub", 1>>

VARIABLES
    state,        \* p.state
    ctxErr,       \* p.ctx.Err() != nil  (p.cancel has run)
    rtcpQ,        \* p.rtcpCh: the buffered batches, oldest first
    rtcpClosed,   \* p.rtcpCh has been closed
    pcClosed,     \* p.peerConn.Close has run
    panicked,     \* a goroutine panicked: the process is gone
    writes,       \* history: every store to p.state by updateState,
                  \*   [from |-> value overwritten, to |-> value stored,
                  \*    old |-> oldState handed to the observer]
    pending,      \* notifier goroutines spawned and not yet running
                  \*   (indices into writes)
    observed,     \* indices into writes, in the order OnStateChange began
    ansPc, ansOld, ansErr, ansChanged,      \* the goroutine running Answer
    negArmed,     \* peerConn.OnNegotiationNeeded handler registered
    sig,          \* messages written to sigConn, oldest first
    icePc, iceOld,                          \* ICE "connected" callbacks
    closePc, closeOld, closeRet,            \* callers of Close
    onCloseCalls, pcCloseCalls,             \* OnClose / peerConn.Close runs
    negPc,        \* negotiation-needed handler invocations
    hnegPc,       \* HandleNegotiate calls
    started,      \* p.once has fired
    relayPc, relayBatch,                    \* rtcpSendWorker
    periodicPc, sdLeft,                     \* downTracksRTCPWorker
    downTracks,   \* p.downTracks[streamId], one stream: sequence of ids
    bound,        \* down tracks whose IsBound() is true
    detached,     \* down tracks removeDownTrack has taken out
    burstPc, burstI,                        \* binding burst per down track
    produced,     \* batches producers have put on rtcpCh so far
    lastWrite,    \* the latest peerConn.WriteRTCP call:
                  \*   [by |-> caller, st |-> p.state when it began]
    startPc,      \* callers of Start
    relayStarts,  \* rtcpSendWorker goroutines spawned so far
    periodicStarts, \* downTracksRTCPWorker goroutines spawned so far
    lockW,        \* per session, the goroutine holding lock.Lock()
    lockR,        \* per session, the goroutines holding lock.RLock()
    tracks,       \* p.tracks: the set of <<key, track id>> entries
    pubPc,        \* publish events (onMediaTrack / onDataChannel calls)
    pubKind,      \* "media", "data", or "private" (the reserved label)
    startHook,    \* per event, the calls of its track's Start()
    confirms,     \* per event, the "track published" responses written
    subPc,        \* the call p.AddSubscriber(subTarget)
    subTarget,    \* the session being subscribed
    subN,         \* the ids in p.tracks when the call took the read lock
    subOrder,     \* the track ids on which AddSubscriber was called, in order
    subCur,       \* the track of the current iteration
    subFails,     \* whether that track's AddSubscriber is going to fail
    subErr,       \* err of the current iteration
    subs,         \* the tracks that hold the new subscriber
    subRet,       \* "none", "nil" or "error"
    rsubPc,       \* the call op.AddSubscriber(p)
    protoPc,      \* the call p.ToProto()
    protoSeen,    \* the tracks ToProto has read so far
    srPending,    \* sender reports in pkts of downTracksRTCPWorker
    tickM,        \* bound down tracks seen by the snapshot of this tick
    tickSR,       \* per write of this tick, the sender reports it carried
    tickState,    \* "none", "running", "complete" or "closed"
    relayLog,     \* the batches rtcpSendWorker has handed to WriteRTCP
    relayErrs,    \* the WriteRTCP errors rtcpSendWorker has logged
    burstWrites   \* per down track, the WriteRTCP calls of its burst

sessionVars == <<state, ctxErr, rtcpQ, rtcpClosed, pcClosed, panicked>>
notifyVars  == <<writes, pending, observed>>
answerVars  == <<ansPc, ansOld, ansErr, ansChanged, negArmed>>
iceVars     == <<icePc, iceOld>>
closeVars   == <<closePc, closeOld, closeRet, onCloseCalls, pcCloseCalls>>
negVars     == <<negPc, hnegPc>>
workerVars  == <<started, relayPc, relayBatch, periodicPc, sdLeft, lastWrite>>
trackVars   == <<downTracks, bound, detached, burstPc, burstI>>

startVars   == <<startPc, relayStarts, periodicStarts>>

lockVars    == <<lockW, lockR>>
pubVars     == <<tracks, pubPc, pubKind, startHook, confirms>>

\* The variables of the operations modelled after the first ones.
subVars     == <<subPc, subTarget, subN, subOrder, subCur, subFails, subErr,
                 subs, subRet>>
protoVars   == <<protoPc, protoSeen>>

fanVars     == <<lockVars, pubVars, subVars, rsubPc, protoVars>>
tickVars    == <<srPending, tickM, tickSR, tickState>>

\* The variables of the operations modelled after the first ones.
extVars == <<startVars, fanVars, tickVars, relayLog, relayErrs, burstWrites>>

vars == <<sessionVars, notifyVars, answerVars, sig, iceVars, closeVars,
          negVars, workerVars, trackVars, produced, extVars>>

\* NewParticipant: state JOINING, a fresh context, an open empty rtcpCh,
\* empty maps; no worker runs before Start.
InitBase ==
    /\ state = JOINING
    /\ ctxErr = FALSE
    /\ rtcpQ = <<>>
    /\ rtcpClosed = FALSE
    /\ pcClosed = FALSE
    /\ panicked = FALSE
    /\ writes = <<>>
    /\ pending = {}
    /\ observed = <<>>
    /\ ansPc = "idle" /\ ansOld = JOINING /\ ansErr = "nil" /\ ansChanged = FALSE
    /\ negArmed = FALSE
    /\ sig = <<>>
    /\ icePc = [i \in ICEs |-> "idle"]
    /\ iceOld = [i \in ICEs |-> JOINING]
    /\ closePc = [c \in Closers |-> "idle"]
    /\ closeOld = [c \in Closers |-> JOINING]
    /\ closeRet = [c \in Closers |-> "none"]
    /\ onCloseCalls = 0
    /\ pcCloseCalls = 0
    /\ negPc = [n \in Negs |-> "idle"]
    /\ hnegPc = [h \in HNegs |-> "idle"]
    /\ started = FALSE
    /\ relayPc = "off" /\ relayBatch = 0
    /\ periodicPc = "off" /\ sdLeft = 0
    /\ detached = {}
    /\ burstPc = [d \in DTs |-> "off"]
    /\ burstI = [d \in DTs |-> 0]
    /\ produced = 0
    /\ lastWrite = [by |-> "none", st |-> JOINING]
    /\ startPc = [s \in Starters |-> "idle"]
    /\ relayStarts = 0
    /\ periodicStarts = 0
    /\ lockW = [x \in Sessions |-> NoHolder]
    /\ lockR = [x \in Sessions |-> {}]
    /\ tracks = {}
    /\ pubPc = [e \in Pubs |-> "idle"]
    /\ pubKind = [e \in Pubs |-> "none"]
    /\ startHook = [e \in Pubs |-> 0]
    /\ confirms = [e \in Pubs |-> 0]
    /\ subPc = "idle"
    /\ subTarget = "op"
    /\ subN = {}
    /\ subOrder = <<>>
    /\ subCur = 0
    /\ subFails = FALSE
    /\ subErr = FALSE
    /\ subs = {}
    /\ subRet = "none"
    /\ rsubPc = "idle"
    /\ protoPc = "idle"
    /\ protoSeen = {}
    /\ srPending = 0
    /\ tickM = 0
    /\ tickSR = <<>>
    /\ tickState = "none"
    /\ relayLog = <<>>
    /\ relayErrs = 0
    /\ burstWrites = [d \in DTs |-> 0]

\* NewParticipant: no down track is attached.
Init ==
    /\ InitBase
    /\ downTracks = <<>>
    /\ bound = {}

\* A session to which m down tracks were attached and bound, and after
\* them u that are not bound yet.
InitTick ==
    /\ InitBase
    /\ \E m \in 0..MaxTickTracks, u \in 0..1 :
         /\ downTracks = [k \in 1..(m + u) |-> k]
         /\ bound = 1..m

\* ------------------------------------------------------- updateState
\* updateState line 345: "if state == p.state { return }".
UpdateIsNoop(target) == target = state

\* updateState lines 349-355: the store to p.state and the spawn of the
\* goroutine that calls OnStateChange(p, oldState).  oldv is the value the
\* caller read at line 348.  An observer is registered.
UpdateStore(target, oldv) ==
    /\ state' = target
    /\ writes' = Append(writes, [from |-> state, to |-> target, old |-> oldv])
    /\ pending' = pending \cup {Len(writes) + 1}
    /\ UNCHANGED observed

\* The goroutine of updateState lines 352-354 starts running: the observer's
\* invocation begins.  The scheduler picks any spawned goroutine.
Notify(w) ==
    /\ ~panicked
    /\ w \in pending
    /\ pending' = pending \ {w}
    /\ observed' = Append(observed, w)
    /\ UNCHANGED <<writes, sessionVars, answerVars, sig, iceVars, closeVars,
                   negVars, workerVars, trackVars, produced,
                   extVars>>


\* ------------------------------------------------------------ Answer
\* Outcome of a call into the transport or the signaling connection: the
\* collaborator either succeeds or returns an error.
Outcomes == {TRUE, FALSE}

\* Answer line 152: peerConn.SetRemoteDescription(sdp); an error returns.
AnswerSetRemote ==
    /\ ~panicked
    /\ ansPc = "idle"
    /\ \E ok \in Outcomes :
         IF ok THEN ansPc' = "createAnswer" /\ UNCHANGED ansErr
               ELSE ansPc' = "done" /\ ansErr' = "setRemote"
    /\ UNCHANGED <<ansOld, ansChanged, negArmed, sessionVars, notifyVars, sig,
                   iceVars, closeVars, negVars, workerVars, trackVars, produced,
                   extVars>>

\* Answer lines 156-160: peerConn.CreateAnswer(nil); an error returns.
AnswerCreate ==
    /\ ~panicked
    /\ ansPc = "createAnswer"
    /\ \E ok \in Outcomes :
         IF ok THEN ansPc' = "setLocal" /\ UNCHANGED ansErr
               ELSE ansPc' = "done" /\ ansErr' = "createAnswer"
    /\ UNCHANGED <<ansOld, ansChanged, negArmed, sessionVars, notifyVars, sig,
                   iceVars, closeVars, negVars, workerVars, trackVars, produced,
                   extVars>>

\* Answer lines 162-165: peerConn.SetLocalDescription(answer); an error returns.
AnswerSetLocal ==
    /\ ~panicked
    /\ ansPc = "setLocal"
    /\ \E ok \in Outcomes :
         IF ok THEN ansPc' = "arm" /\ UNCHANGED ansErr
               ELSE ansPc' = "done" /\ ansErr' = "setLocal"
    /\ UNCHANGED <<ansOld, ansChanged, negArmed, sessionVars, notifyVars, sig,
                   iceVars, closeVars, negVars, workerVars, trackVars, produced,
                   extVars>>

\* Answer lines 167-196: peerConn.OnNegotiationNeeded(handler).
AnswerArm ==
    /\ ~panicked
    /\ ansPc = "arm"
    /\ negArmed' = TRUE
    /\ ansPc' = "send"
    /\ UNCHANGED <<ansOld, ansErr, ansChanged, sessionVars, notifyVars, sig,
                   iceVars, closeVars, negVars, workerVars, trackVars, produced,
                   extVars>>

\* Answer lines 198-202: err = sigConn.WriteResponse(answer).  The error is
\* kept in err and the function goes on to line 204.
AnswerSend ==
    /\ ~panicked
    /\ ansPc = "send"
    /\ \E ok \in Outcomes :
         IF ok THEN sig' = Append(sig, "answer") /\ ansErr' = "nil"
               ELSE sig' = sig /\ ansErr' = "send"
    /\ ansPc' = "readState"
    /\ UNCHANGED <<ansOld, ansChanged, negArmed, sessionVars, notifyVars,
                   iceVars, closeVars, negVars, workerVars, trackVars, produced,
                   extVars>>

\* Answer line 204: "if p.state == JOINING".
AnswerReadState ==
    /\ ~panicked
    /\ ansPc = "readState"
    /\ ansPc' = IF state = JOINING THEN "updCheck" ELSE "done"
    /\ UNCHANGED <<ansOld, ansErr, ansChanged, negArmed, sessionVars, notifyVars,
                   sig, iceVars, closeVars, negVars, workerVars, trackVars, produced,
                   extVars>>

\* Answer line 205 -> updateState(JOINED) line 345.
AnswerUpdCheck ==
    /\ ~panicked
    /\ ansPc = "updCheck"
    /\ ansPc' = IF UpdateIsNoop(JOINED) THEN "done" ELSE "updOld"
    /\ UNCHANGED <<ansOld, ansErr, ansChanged, negArmed, sessionVars, notifyVars,
                   sig, iceVars, closeVars, negVars, workerVars, trackVars, produced,
                   extVars>>

\* updateState line 348: oldState := p.state.
AnswerUpdOld ==
    /\ ~panicked
    /\ ansPc = "updOld"
    /\ ansOld' = state
    /\ ansPc' = "updStore"
    /\ UNCHANGED <<ansErr, ansChanged, negArmed, sessionVars, notifyVars,
                   sig, iceVars, closeVars, negVars, workerVars, trackVars, produced,
                   extVars>>

\* updateState lines 349-355, then Answer returns (answer, err).
AnswerUpdStore ==
    /\ ~panicked
    /\ ansPc = "updStore"
    /\ UpdateStore(JOINED, ansOld)
    /\ ansChanged' = TRUE
    /\ ansPc' = "done"
    /\ UNCHANGED <<ansOld, ansErr, negArmed, ctxErr, rtcpQ, rtcpClosed, pcClosed,
                   panicked, sig, iceVars, closeVars, negVars, workerVars,
                   trackVars, produced,
                   extVars>>

\* ------------------------------------------- ICE connection callback
AnswerSent == \E k \in 1..Len(sig) : sig[k] = "answer"

\* The transport invokes the OnICEConnectionStateChange handler (line 112)
\* with ICEConnectionStateConnected, each invocation on a goroutine of its
\* own.  Environment: connectivity is established only with a peer that has
\* received the answer, and an open transport; invocations are numbered in
\* the order the transport makes them.
IceConnected(i) ==
    /\ ~panicked
    /\ icePc[i] = "idle"
    /\ \A j \in ICEs : j < i => icePc[j] # "idle"
    /\ AnswerSent
    /\ ~pcClosed
    /\ icePc' = [icePc EXCEPT ![i] = "updCheck"]
    /\ UNCHANGED <<iceOld, sessionVars, notifyVars, answerVars, sig, closeVars,
                   negVars, workerVars, trackVars, produced,
                   extVars>>

\* Handler line 115 -> updateState(ACTIVE) line 345.
IceUpdCheck(i) ==
    /\ ~panicked
    /\ icePc[i] = "updCheck"
    /\ icePc' = [icePc EXCEPT ![i] = IF UpdateIsNoop(ACTIVE) THEN "done" ELSE "updOld"]
    /\ UNCHANGED <<iceOld, sessionVars, notifyVars, answerVars, sig, closeVars,
                   negVars, workerVars, trackVars, produced,
                   extVars>>

\* updateState line 348.
IceUpdOld(i) ==
    /\ ~panicked
    /\ icePc[i] = "updOld"
    /\ iceOld' = [iceOld EXCEPT ![i] = state]
    /\ icePc' = [icePc EXCEPT ![i] = "updStore"]
    /\ UNCHANGED <<sessionVars, notifyVars, answerVars, sig, closeVars,
                   negVars, workerVars, trackVars, produced,
                   extVars>>

\* updateState lines 349-355.
IceUpdStore(i) ==
    /\ ~panicked
    /\ icePc[i] = "updStore"
    /\ UpdateStore(ACTIVE, iceOld[i])
    /\ icePc' = [icePc EXCEPT ![i] = "done"]
    /\ UNCHANGED <<iceOld, ctxErr, rtcpQ, rtcpClosed, pcClosed, panicked,
                   answerVars, sig, closeVars, negVars, workerVars, trackVars,
                   produced,
                   extVars>>

\* ------------------------------------------------------------- Close
\* Close lines 283-285: "if p.ctx.Err() != nil { return p.ctx.Err() }".
\* Callers are numbered in the order they enter.
CloseGuard(c) ==
    /\ ~panicked
    /\ closePc[c] = "idle"
    /\ \A j \in Closers : j < c => closePc[j] # "idle"
    /\ IF ctxErr
         THEN /\ closePc' = [closePc EXCEPT ![c] = "done"]
              /\ closeRet' = [closeRet EXCEPT ![c] = "canceled"]
         ELSE /\ closePc' = [closePc EXCEPT ![c] = "closeCh"]
              /\ UNCHANGED closeRet
    /\ UNCHANGED <<closeOld, onCloseCalls, pcCloseCalls, sessionVars, notifyVars,
                   answerVars, sig, iceVars, negVars, workerVars, trackVars,
                   produced,
                   extVars>>

\* Close line 286: close(p.rtcpCh).  Closing a closed channel panics.
CloseChannel(c) ==
    /\ ~panicked
    /\ closePc[c] = "closeCh"
    /\ IF rtcpClosed
         THEN /\ panicked' = TRUE
              /\ closePc' = [closePc EXCEPT ![c] = "panic"]
              /\ UNCHANGED rtcpClosed
         ELSE /\ rtcpClosed' = TRUE
              /\ closePc' = [closePc EXCEPT ![c] = "updCheck"]
              /\ UNCHANGED panicked
    /\ UNCHANGED <<state, ctxErr, rtcpQ, pcClosed, closeOld, closeRet,
                   onCloseCalls, pcCloseCalls, notifyVars, answerVars, sig,
                   iceVars, negVars, workerVars, trackVars, produced,
                   extVars>>

\* Close line 287 -> updateState(DISCONNECTED) line 345.
CloseUpdCheck(c) ==
    /\ ~panicked
    /\ closePc[c] = "updCheck"
    /\ closePc' = [closePc EXCEPT ![c] =
                     IF UpdateIsNoop(DISCONNECTED) THEN "onClose" ELSE "updOld"]
    /\ UNCHANGED <<closeOld, closeRet, onCloseCalls, pcCloseCalls, sessionVars,
                   notifyVars, answerVars, sig, iceVars, negVars, workerVars,
                   trackVars, produced,
                   extVars>>

\* updateState line 348.
CloseUpdOld(c) ==
    /\ ~panicked
    /\ closePc[c] = "updOld"
    /\ closeOld' = [closeOld EXCEPT ![c] = state]
    /\ closePc' = [closePc EXCEPT ![c] = "updStore"]
    /\ UNCHANGED <<closeRet, onCloseCalls, pcCloseCalls, sessionVars,
                   notifyVars, answerVars, sig, iceVars, negVars, workerVars,
                   trackVars, produced,
                   extVars>>

\* updateState lines 349-355.
CloseUpdStore(c) ==
    /\ ~panicked
    /\ closePc[c] = "updStore"
    /\ UpdateStore(DISCONNECTED, closeOld[c])
    /\ closePc' = [closePc EXCEPT ![c] = "onClose"]
    /\ UNCHANGED <<closeOld, closeRet, onCloseCalls, pcCloseCalls, ctxErr, rtcpQ,
                   rtcpClosed, pcClosed, panicked, answerVars, sig, iceVars,
                   negVars, workerVars, trackVars, produced,
                   extVars>>

\* Close lines 288-290: p.OnClose(p); an OnClose handler is registered.
CloseOnClose(c) ==
    /\ ~panicked
    /\ closePc[c] = "onClose"
    /\ onCloseCalls' = onCloseCalls + 1
    /\ closePc' = [closePc EXCEPT ![c] = "cancel"]
    /\ UNCHANGED <<closeOld, closeRet, pcCloseCalls, sessionVars, notifyVars,
                   answerVars, sig, iceVars, negVars, workerVars, trackVars,
                   produced,
                   extVars>>

\* Close line 291: p.cancel().
CloseCancel(c) ==
    /\ ~panicked
    /\ closePc[c] = "cancel"
    /\ ctxErr' = TRUE
    /\ closePc' = [closePc EXCEPT ![c] = "pcClose"]
    /\ UNCHANGED <<state, rtcpQ, rtcpClosed, pcClosed, panicked, closeOld,
                   closeRet, onCloseCalls, pcCloseCalls, notifyVars, answerVars,
                   sig, iceVars, negVars, workerVars, trackVars, produced,
                   extVars>>

\* Close line 292: return p.peerConn.Close().
ClosePeerConn(c) ==
    /\ ~panicked
    /\ closePc[c] = "pcClose"
    /\ pcClosed' = TRUE
    /\ pcCloseCalls' = pcCloseCalls + 1
    /\ closeRet' = [closeRet EXCEPT ![c] = "closed"]
    /\ closePc' = [closePc EXCEPT ![c] = "done"]
    /\ UNCHANGED <<state, ctxErr, rtcpQ, rtcpClosed, panicked, closeOld,
                   onCloseCalls, notifyVars, answerVars, sig, iceVars, negVars,
                   workerVars, trackVars, produced,
                   extVars>>


\* ------------------------------------------------------- negotiation
\* The transport invokes the handler registered at line 168.  Environment:
\* the transport runs the handler from its operations queue, one invocation
\* at a time, and not once it is closed.
NegFire(n) ==
    /\ ~panicked
    /\ negPc[n] = "idle"
    /\ negArmed
    /\ ~pcClosed
    /\ \A j \in Negs : j < n => negPc[j] = "done"
    /\ negPc' = [negPc EXCEPT ![n] = "createOffer"]
    /\ UNCHANGED <<hnegPc, sessionVars, notifyVars, answerVars, sig, iceVars,
                   closeVars, workerVars, trackVars, produced,
                   extVars>>

\* Handler lines 170-174: peerConn.CreateOffer(nil); an error is logged and
\* the handler returns.
NegCreateOffer(n) ==
    /\ ~panicked
    /\ negPc[n] = "createOffer"
    /\ \E ok \in Outcomes :
         negPc' = [negPc EXCEPT ![n] = IF ok THEN "setLocal" ELSE "done"]
    /\ UNCHANGED <<hnegPc, sessionVars, notifyVars, answerVars, sig, iceVars,
                   closeVars, workerVars, trackVars, produced,
                   extVars>>

\* Handler lines 176-180: peerConn.SetLocalDescription(offer).
NegSetLocal(n) ==
    /\ ~panicked
    /\ negPc[n] = "setLocal"
    /\ \E ok \in Outcomes :
         negPc' = [negPc EXCEPT ![n] = IF ok THEN "send" ELSE "done"]
    /\ UNCHANGED <<hnegPc, sessionVars, notifyVars, answerVars, sig, iceVars,
                   closeVars, workerVars, trackVars, produced,
                   extVars>>

\* Handler lines 182-195: the offer is written to sigConn as a "negotiate"
\* message (an error is logged), then OnOffer runs.
NegSend(n) ==
    /\ ~panicked
    /\ negPc[n] = "send"
    /\ \E ok \in Outcomes : sig' = IF ok THEN Append(sig, "offer") ELSE sig
    /\ negPc' = [negPc EXCEPT ![n] = "done"]
    /\ UNCHANGED <<hnegPc, sessionVars, notifyVars, answerVars, iceVars,
                   closeVars, workerVars, trackVars, produced,
                   extVars>>

\* HandleNegotiate lines 212-216, 234: SetRemoteDescription(sd); an error
\* returns, and so does a description that is not an offer.  Environment:
\* the client negotiates after it has received the answer; calls are
\* numbered in the order they are made.
HNegSetRemote(h) ==
    /\ ~panicked
    /\ hnegPc[h] = "idle"
    /\ \A j \in HNegs : j < h => hnegPc[j] # "idle"
    /\ AnswerSent
    /\ \E ok \in Outcomes, isOffer \in BOOLEAN :
         hnegPc' = [hnegPc EXCEPT ![h] =
                      IF ok /\ isOffer THEN "createAnswer" ELSE "done"]
    /\ UNCHANGED <<negPc, sessionVars, notifyVars, answerVars, sig, iceVars,
                   closeVars, workerVars, trackVars, produced,
                   extVars>>

\* HandleNegotiate lines 217-220: peerConn.CreateAnswer(nil).
HNegCreate(h) ==
    /\ ~panicked
    /\ hnegPc[h] = "createAnswer"
    /\ \E ok \in Outcomes :
         hnegPc' = [hnegPc EXCEPT ![h] = IF ok THEN "setLocal" ELSE "done"]
    /\ UNCHANGED <<negPc, sessionVars, notifyVars, answerVars, sig, iceVars,
                   closeVars, workerVars, trackVars, produced,
                   extVars>>

\* HandleNegotiate lines 222-224: peerConn.SetLocalDescription(answer).
HNegSetLocal(h) ==
    /\ ~panicked
    /\ hnegPc[h] = "setLocal"
    /\ \E ok \in Outcomes :
         hnegPc' = [hnegPc EXCEPT ![h] = IF ok THEN "send" ELSE "done"]
    /\ UNCHANGED <<negPc, sessionVars, notifyVars, answerVars, sig, iceVars,
                   closeVars, workerVars, trackVars, produced,
                   extVars>>

\* HandleNegotiate lines 226-231: the answer is written to sigConn as a
\* "negotiate" message and the write's result is returned.
HNegSend(h) ==
    /\ ~panicked
    /\ hnegPc[h] = "send"
    /\ \E ok \in Outcomes : sig' = IF ok THEN Append(sig, "negotiateAnswer") ELSE sig
    /\ hnegPc' = [hnegPc EXCEPT ![h] = "done"]
    /\ UNCHANGED <<negPc, sessionVars, notifyVars, answerVars, iceVars,
                   closeVars, workerVars, trackVars, produced,
                   extVars>>

\* -------------------------------------------------------------- lock
\* sync.RWMutex: Lock waits for the writer and the readers to be gone,
\* RLock for the writer.  (That a waiting Lock also holds back new readers
\* is left out: it only removes interleavings.)
CanLock(x)  == lockW[x] = NoHolder /\ lockR[x] = {}
CanRLock(x) == lockW[x] = NoHolder

\* ------------------------------------------------------------ workers
\* Start with the sync.Once left out: every call spawns the two workers.
StartNoOnce(s) ==
    /\ ~panicked
    /\ startPc[s] = "idle"
    /\ \A j \in Starters : j < s => startPc[j] # "idle"
    /\ startPc' = [startPc EXCEPT ![s] = "done"]
    /\ started' = TRUE
    /\ relayPc' = "recv"
    /\ periodicPc' = "sleep"
    /\ relayStarts' = relayStarts + 1
    /\ periodicStarts' = periodicStarts + 1
    /\ UNCHANGED <<relayBatch, sdLeft, lastWrite, sessionVars, notifyVars,
                   answerVars, sig, iceVars, closeVars, negVars, trackVars,
                   produced, lockVars, pubVars, subVars, rsubPc, protoVars, tickVars, relayLog, relayErrs, burstWrites>>

\* Start lines 275-280: p.once.Do runs its function for the first caller
\* only (started is the Once's done flag; a caller that arrives while the
\* function runs waits for it, so the call is one step): it spawns
\* rtcpSendWorker and downTracksRTCPWorker.  Callers are numbered in the
\* order they enter.
Start(s) ==
    /\ ~panicked
    /\ startPc[s] = "idle"
    /\ \A j \in Starters : j < s => startPc[j] # "idle"
    /\ startPc' = [startPc EXCEPT ![s] = "done"]
    /\ IF ~started
         THEN /\ started' = TRUE
              /\ relayPc' = "recv"
              /\ periodicPc' = "sleep"
              /\ relayStarts' = relayStarts + 1
              /\ periodicStarts' = periodicStarts + 1
         ELSE UNCHANGED <<started, relayPc, periodicPc, relayStarts,
                          periodicStarts>>
    /\ UNCHANGED <<relayBatch, sdLeft, lastWrite, sessionVars, notifyVars,
                   answerVars, sig, iceVars, closeVars, negVars, trackVars,
                   produced, lockVars, pubVars, subVars, rsubPc, protoVars, tickVars, relayLog, relayErrs, burstWrites>>

\* What peerConn.WriteRTCP returns: nil or a transient error while the
\* transport is open, one of the two "closed" errors or another error once
\* it is closed.
WriteResults ==
    IF pcClosed THEN {"EOF", "ErrClosedPipe", "other"} ELSE {"nil", "other"}

\* A receive that takes the newest batch of the channel.
RelayRecvNewest ==
    /\ ~panicked
    /\ relayPc = "recv"
    /\ IF rtcpQ # <<>>
         THEN /\ relayBatch' = rtcpQ[Len(rtcpQ)]
              /\ rtcpQ' = SubSeq(rtcpQ, 1, Len(rtcpQ) - 1)
              /\ relayPc' = "write"
         ELSE /\ rtcpClosed
              /\ relayPc' = "done"
              /\ UNCHANGED <<relayBatch, rtcpQ>>
    /\ UNCHANGED <<state, ctxErr, rtcpClosed, pcClosed, panicked, started,
                   periodicPc, sdLeft, lastWrite, notifyVars, answerVars, sig,
                   iceVars, closeVars, negVars, trackVars, produced,
                   extVars>>

\* rtcpSendWorker line 490: "for pkts := range p.rtcpCh" receives the oldest
\* batch, blocks on an open empty channel and ends on a closed empty one.
RelayRecv ==
    /\ ~panicked
    /\ relayPc = "recv"
    /\ IF rtcpQ # <<>>
         THEN /\ relayBatch' = Head(rtcpQ)
              /\ rtcpQ' = Tail(rtcpQ)
              /\ relayPc' = "write"
         ELSE /\ rtcpClosed
              /\ relayPc' = "done"
              /\ UNCHANGED <<relayBatch, rtcpQ>>
    /\ UNCHANGED <<state, ctxErr, rtcpClosed, pcClosed, panicked, started,
                   periodicPc, sdLeft, lastWrite, notifyVars, answerVars, sig,
                   iceVars, closeVars, negVars, trackVars, produced,
                   extVars>>

\* rtcpSendWorker lines 494-498: peerConn.WriteRTCP(pkts); an error is
\* logged and the loop goes on.
RelayWrite ==
    /\ ~panicked
    /\ relayPc = "write"
    /\ lastWrite' = [by |-> "relay", st |-> state]
    /\ relayLog' = Append(relayLog, relayBatch)
    /\ \E res \in WriteResults :
         relayErrs' = IF res = "nil" THEN relayErrs ELSE relayErrs + 1
    /\ relayPc' = "recv"
    /\ UNCHANGED <<started, relayBatch, periodicPc, sdLeft, sessionVars,
                   notifyVars, answerVars, sig, iceVars, closeVars, negVars,
                   trackVars, produced,
                   startVars, fanVars, tickVars, burstWrites>>

\* What CreateSourceDescriptionChunks returns for a bound down track: one
\* chunk.
ChunksPerDownTrack == 1

\* Bound down tracks of the registry (IsBound() at lines 409 and 452).
BoundDownTracks == {k \in 1..Len(downTracks) : downTracks[k] \in bound}

\* downTracksRTCPWorker lines 445-462: after the 5 s sleep, under RLock, one
\* sender report and the source description chunks of every bound down
\* track are collected; sdLeft is len(sd).
PeriodicSnapshot ==
    /\ ~panicked
    /\ periodicPc = "sleep"
    /\ CanRLock("p")
    /\ srPending' = Cardinality(BoundDownTracks)
    /\ sdLeft' = Cardinality(BoundDownTracks) * ChunksPerDownTrack
    /\ periodicPc' = "batch"
    /\ tickM' = Cardinality(BoundDownTracks)
    /\ tickSR' = <<>>
    /\ tickState' = "running"
    /\ UNCHANGED <<started, relayPc, relayBatch, lastWrite, sessionVars,
                   notifyVars, answerVars, sig, iceVars, closeVars, negVars,
                   trackVars, produced,
                   startVars, fanVars, relayLog, relayErrs, burstWrites>>

Min(a, b) == IF a < b THEN a ELSE b

\* downTracksRTCPWorker lines 467-484: "for len(sd) > 0": one batch of at
\* most sdBatchSize chunks is written; io.EOF or io.ErrClosedPipe ends the
\* worker, another error is logged.  With sd empty the loop ends and the
\* worker sleeps again.
PeriodicBatchKeepPkts ==
    /\ ~panicked
    /\ periodicPc = "batch"
    /\ IF sdLeft = 0
         THEN /\ periodicPc' = "sleep"
              /\ tickState' = "complete"
              /\ UNCHANGED <<sdLeft, lastWrite, srPending, tickM, tickSR>>
         ELSE /\ lastWrite' = [by |-> "periodic", st |-> state]
              /\ tickSR' = Append(tickSR, srPending)
              /\ \E res \in WriteResults :
                   IF res \in {"EOF", "ErrClosedPipe"}
                     THEN /\ periodicPc' = "done"
                          /\ tickState' = "closed"
                          /\ UNCHANGED <<sdLeft, srPending>>
                     ELSE /\ sdLeft' = sdLeft - Min(sdLeft, sdBatchSize)
                          /\ UNCHANGED <<periodicPc, tickState, srPending>>
              /\ UNCHANGED tickM
    /\ UNCHANGED <<started, relayPc, relayBatch, sessionVars, notifyVars,
                   answerVars, sig, iceVars, closeVars, negVars, trackVars,
                   produced, startVars, fanVars, relayLog, relayErrs, burstWrites>>

PeriodicBatch ==
    /\ ~panicked
    /\ periodicPc = "batch"
    /\ IF sdLeft = 0
         THEN /\ periodicPc' = "sleep"
              /\ tickState' = "complete"
              /\ UNCHANGED <<sdLeft, lastWrite, srPending, tickM, tickSR>>
         ELSE /\ lastWrite' = [by |-> "periodic", st |-> state]
              /\ tickSR' = Append(tickSR, srPending)
              /\ \E res \in WriteResults :
                   IF res \in {"EOF", "ErrClosedPipe"}
                     THEN /\ periodicPc' = "done"
                          /\ tickState' = "closed"
                          /\ UNCHANGED <<sdLeft, srPending>>
                     ELSE /\ sdLeft' = sdLeft - Min(sdLeft, sdBatchSize)
                          /\ srPending' = 0
                          /\ UNCHANGED <<periodicPc, tickState>>
              /\ UNCHANGED tickM
    /\ UNCHANGED <<started, relayPc, relayBatch, sessionVars, notifyVars,
                   answerVars, sig, iceVars, closeVars, negVars, trackVars,
                   produced, startVars, fanVars, relayLog, relayErrs, burstWrites>>

\* A published media track, which holds p.rtcpCh (onMediaTrack line 364),
\* sends a feedback batch: the send blocks on a full channel and panics on
\* a closed one.
Produce ==
    /\ ~panicked
    /\ produced < MaxBatches
    /\ IF rtcpClosed
         THEN panicked' = TRUE /\ UNCHANGED <<rtcpQ, produced>>
         ELSE /\ Len(rtcpQ) < RtcpChCap
              /\ rtcpQ' = Append(rtcpQ, produced + 1)
              /\ produced' = produced + 1
              /\ UNCHANGED panicked
    /\ UNCHANGED <<state, ctxErr, rtcpClosed, pcClosed, notifyVars, answerVars,
                   sig, iceVars, closeVars, negVars, workerVars, trackVars,
                   extVars>>

\* ------------------------------------------------------- down tracks
InRegistry(d) == \E k \in 1..Len(downTracks) : downTracks[k] = d

\* addDownTrack lines 253-260: append under the write lock and register the
\* OnBind callback.  A down track is attached once; down tracks are numbered
\* in the order they are attached.
Attach(d) ==
    /\ ~panicked
    /\ CanLock("p")
    /\ ~InRegistry(d)
    /\ d \notin detached
    /\ \A j \in DTs : j < d => (InRegistry(j) \/ j \in detached)
    /\ downTracks' = Append(downTracks, d)
    /\ UNCHANGED <<bound, detached, burstPc, burstI, sessionVars, notifyVars, answerVars,
                   sig, iceVars, closeVars, negVars, workerVars, produced>>

\* addDownTrack called by a track of a session that is not modelled.
AddDownTrack(d) ==
    /\ Attach(d)
    /\ UNCHANGED extVars

\* removeDownTrack lines 262-273: filter dt out under the write lock.
RemoveDownTrack(d) ==
    /\ ~panicked
    /\ CanLock("p")
    /\ InRegistry(d)
    /\ downTracks' = SelectSeq(downTracks, LAMBDA x : x # d)
    /\ detached' = detached \cup {d}
    /\ UNCHANGED <<bound, burstPc, burstI, sessionVars, notifyVars, answerVars,
                   sig, iceVars, closeVars, negVars, workerVars, produced,
                   extVars>>

\* The down track's binding completes: IsBound() turns true and the OnBind
\* callback of line 257 spawns scheduleDownTrackBindingReports (line 258).
Bind(d) ==
    /\ ~panicked
    /\ InRegistry(d)
    /\ d \notin bound
    /\ bound' = bound \cup {d}
    /\ burstPc' = [burstPc EXCEPT ![d] = "snap"]
    /\ UNCHANGED <<downTracks, detached, burstI, sessionVars, notifyVars, answerVars,
                   sig, iceVars, closeVars, negVars, workerVars, produced,
                   extVars>>

\* scheduleDownTrackBindingReports lines 404-425: the source description of
\* the stream's bound down tracks is built under RLock and the burst
\* goroutine starts with i = 0.
BurstSnapshot(d) ==
    /\ ~panicked
    /\ CanRLock("p")
    /\ burstPc[d] = "snap"
    /\ burstPc' = [burstPc EXCEPT ![d] = "write"]
    /\ burstI' = [burstI EXCEPT ![d] = 0]
    /\ UNCHANGED <<downTracks, bound, detached, sessionVars, notifyVars, answerVars,
                   sig, iceVars, closeVars, negVars, workerVars, produced,
                   extVars>>

\* Burst loop lines 426-437: WriteRTCP(batch) (an error is logged), then
\* "if i > 5 { return }", i++ and a 20 ms sleep.
BurstWrite(d) ==
    /\ ~panicked
    /\ burstPc[d] = "write"
    /\ lastWrite' = [by |-> "burst", st |-> state]
    /\ burstWrites' = [burstWrites EXCEPT ![d] = burstWrites[d] + 1]
    /\ IF burstI[d] > BurstLast
         THEN burstPc' = [burstPc EXCEPT ![d] = "done"] /\ UNCHANGED burstI
         ELSE burstI' = [burstI EXCEPT ![d] = burstI[d] + 1] /\ UNCHANGED burstPc
    /\ UNCHANGED <<downTracks, bound, detached, started, relayPc, relayBatch, periodicPc,
                   sdLeft, sessionVars, notifyVars, answerVars, sig, iceVars,
                   closeVars, negVars, produced,
                   startVars, fanVars, tickVars, relayLog, relayErrs>>

\* ------------------------------------------------------- publication
\* A Go map store m[k] = v: the entry of key k is replaced.
MapPut(m, k, v) == {x \in m : x[1] # k} \cup {<<k, v>>}
Keys(m) == {x[1] : x \in m}

\* The id of the track made for publish event e (track.ID(), dt.id): the
\* events carry distinct track ids.
TrackID(e) == e

pubOther == <<tickVars, relayLog, relayErrs, burstWrites, subVars, rsubPc, protoVars, startVars, sessionVars, notifyVars, answerVars, iceVars,
              closeVars, negVars, workerVars, trackVars, produced>>

\* onMediaTrack lines 359-366: a remote track arrives; a MediaTrack is made
\* and handed to handleTrackPublished.  Events are numbered in the order
\* the transport delivers them.
OnMediaTrack(e) ==
    /\ ~panicked
    /\ pubPc[e] = "idle"
    /\ \A j \in Pubs : j < e => pubPc[j] # "idle"
    /\ pubKind' = [pubKind EXCEPT ![e] = "media"]
    /\ pubPc' = [pubPc EXCEPT ![e] = "hLock"]
    /\ UNCHANGED <<tracks, startHook, confirms, lockVars, sig, pubOther>>

\* onDataChannel with the test of the label left out.
OnDataChannelNoFilter(e) ==
    /\ ~panicked
    /\ pubPc[e] = "idle"
    /\ \A j \in Pubs : j < e => pubPc[j] # "idle"
    /\ \E private \in BOOLEAN :
         pubKind' = [pubKind EXCEPT ![e] = IF private THEN "private" ELSE "data"]
    /\ pubPc' = [pubPc EXCEPT ![e] = "dLock"]
    /\ UNCHANGED <<tracks, startHook, confirms, lockVars, sig, pubOther>>

\* onDataChannel lines 369-375: a data channel arrives; one labelled
\* placeholderDataChannel ("_private") is ignored, for another a DataTrack
\* is made.
OnDataChannel(e) ==
    /\ ~panicked
    /\ pubPc[e] = "idle"
    /\ \A j \in Pubs : j < e => pubPc[j] # "idle"
    /\ \E private \in BOOLEAN :
         IF private
           THEN /\ pubKind' = [pubKind EXCEPT ![e] = "private"]
                /\ pubPc' = [pubPc EXCEPT ![e] = "done"]
           ELSE /\ pubKind' = [pubKind EXCEPT ![e] = "data"]
                /\ pubPc' = [pubPc EXCEPT ![e] = "dLock"]
    /\ UNCHANGED <<tracks, startHook, confirms, lockVars, sig, pubOther>>

\* onDataChannel line 376: p.lock.Lock().
DataLock(e) ==
    /\ ~panicked
    /\ pubPc[e] = "dLock"
    /\ CanLock("p")
    /\ lockW' = [lockW EXCEPT !["p"] = PubHolder(e)]
    /\ pubPc' = [pubPc EXCEPT ![e] = "dInsert"]
    /\ UNCHANGED <<lockR, tracks, pubKind, startHook, confirms, sig, pubOther>>

\* onDataChannel lines 377-378: p.tracks[dt.id] = dt; p.lock.Unlock().
DataInsert(e) ==
    /\ ~panicked
    /\ pubPc[e] = "dInsert"
    /\ tracks' = MapPut(tracks, TrackID(e), e)
    /\ lockW' = [lockW EXCEPT !["p"] = NoHolder]
    /\ pubPc' = [pubPc EXCEPT ![e] = "dStart"]
    /\ UNCHANGED <<lockR, pubKind, startHook, confirms, sig, pubOther>>

\* onDataChannel line 380: dt.Start(); line 382 calls handleTrackPublished.
DataStart(e) ==
    /\ ~panicked
    /\ pubPc[e] = "dStart"
    /\ startHook' = [startHook EXCEPT ![e] = startHook[e] + 1]
    /\ pubPc' = [pubPc EXCEPT ![e] = "hLock"]
    /\ UNCHANGED <<tracks, pubKind, confirms, lockVars, sig, pubOther>>

\* handleTrackPublished line 386: p.lock.Lock().
HandleLock(e) ==
    /\ ~panicked
    /\ pubPc[e] = "hLock"
    /\ CanLock("p")
    /\ lockW' = [lockW EXCEPT !["p"] = PubHolder(e)]
    /\ pubPc' = [pubPc EXCEPT ![e] = "hInsert"]
    /\ UNCHANGED <<lockR, tracks, pubKind, startHook, confirms, sig, pubOther>>

\* handleTrackPublished lines 387-388: p.tracks[track.ID()] = track;
\* p.lock.Unlock().
HandleInsert(e) ==
    /\ ~panicked
    /\ pubPc[e] = "hInsert"
    /\ tracks' = MapPut(tracks, TrackID(e), e)
    /\ lockW' = [lockW EXCEPT !["p"] = NoHolder]
    /\ pubPc' = [pubPc EXCEPT ![e] = "hStart"]
    /\ UNCHANGED <<lockR, pubKind, startHook, confirms, sig, pubOther>>

\* handleTrackPublished lines 390-400, all outside the lock: track.Start();
\* the "track published" response is handed to sigConn.WriteResponse, whose
\* result is dropped; OnTrackPublished is spawned.
HandleStart(e) ==
    /\ ~panicked
    /\ pubPc[e] = "hStart"
    /\ startHook' = [startHook EXCEPT ![e] = startHook[e] + 1]
    /\ confirms' = [confirms EXCEPT ![e] = confirms[e] + 1]
    /\ sig' = Append(sig, "trackPublished")
    /\ pubPc' = [pubPc EXCEPT ![e] = "done"]
    /\ UNCHANGED <<tracks, pubKind, lockVars, pubOther>>

\* ----------------------------------------------------------- fan-out
Range(q) == {q[k] : k \in 1..Len(q)}

subOther == <<tickVars, relayLog, relayErrs, burstWrites, startVars, pubVars, rsubPc, protoVars, sessionVars, notifyVars,
              answerVars, sig, iceVars, closeVars, negVars, workerVars,
              trackVars, produced>>

\* AddSubscriber line 297: p.lock.RLock(); the unlock is deferred (298).
SubRLock(target) ==
    /\ ~panicked
    /\ subPc = "idle"
    /\ CanRLock("p")
    /\ lockR' = [lockR EXCEPT !["p"] = @ \cup {SubHolder}]
    /\ subTarget' = target
    /\ subN' = Keys(tracks)
    /\ subPc' = "iter"
    /\ UNCHANGED <<lockW, subOrder, subCur, subFails, subErr, subs, subRet, subOther>>

\* AddSubscriber line 299: the range loop yields the next track, in the
\* map's order, which Go leaves unspecified.  Whether this track is going
\* to accept the subscriber is the track's business and is drawn here.
SubNext(t, fails) ==
    /\ ~panicked
    /\ subPc = "iter"
    /\ t \in Keys(tracks) \ Range(subOrder)
    /\ subCur' = t
    /\ subFails' = fails
    /\ subOrder' = Append(subOrder, t)
    /\ subPc' = "call"
    /\ UNCHANGED <<lockVars, subTarget, subN, subErr, subs, subRet, subOther>>

\* AddSubscriber line 304, the call track.AddSubscriber(op): a track that
\* accepts attaches a down track through the target's addDownTrack, which
\* takes the target's write lock (of the target's down tracks nothing but
\* the lock is kept here).
SubCall ==
    /\ ~panicked
    /\ subPc = "call"
    /\ IF subFails
         THEN /\ subErr' = TRUE
              /\ subs' = subs
         ELSE /\ CanLock(subTarget)
              /\ subErr' = FALSE
              /\ subs' = subs \cup {subCur}
    /\ subPc' = "check"
    /\ UNCHANGED <<lockVars, subTarget, subN, subOrder, subCur, subFails, subRet,
                   subOther>>

\* The test of err left out: the loop goes on after a failure.
SubCheckNoAbort ==
    /\ ~panicked
    /\ subPc = "check"
    /\ subPc' = "iter"
    /\ UNCHANGED <<lockVars, subRet, subTarget, subN, subOrder, subCur, subFails,
                   subErr, subs, subOther>>

\* AddSubscriber lines 304-306: if err != nil { return err }, with the
\* deferred RUnlock of line 298.
SubCheck ==
    /\ ~panicked
    /\ subPc = "check"
    /\ IF subErr
         THEN /\ subRet' = "error"
              /\ lockR' = [lockR EXCEPT !["p"] = @ \ {SubHolder}]
              /\ subPc' = "done"
         ELSE /\ subPc' = "iter"
              /\ UNCHANGED <<subRet, lockR>>
    /\ UNCHANGED <<lockW, subTarget, subN, subOrder, subCur, subFails, subErr,
                   subs, subOther>>

\* AddSubscriber line 308: the loop is over, return nil; deferred RUnlock.
SubReturn ==
    /\ ~panicked
    /\ subPc = "iter"
    /\ Keys(tracks) \subseteq Range(subOrder)
    /\ subRet' = "nil"
    /\ lockR' = [lockR EXCEPT !["p"] = @ \ {SubHolder}]
    /\ subPc' = "done"
    /\ UNCHANGED <<lockW, subTarget, subN, subOrder, subCur, subFails, subErr,
                   subs, subOther>>

rsubOther == <<tickVars, relayLog, relayErrs, burstWrites, startVars, pubVars, subVars, protoVars>>

\* op.AddSubscriber(p), lines 297-298 run on the other session: it takes
\* its own read lock.
RSubRLock ==
    /\ ~panicked
    /\ rsubPc = "idle"
    /\ CanRLock("op")
    /\ lockR' = [lockR EXCEPT !["op"] = @ \cup {RSubHolder}]
    /\ rsubPc' = "call"
    /\ UNCHANGED <<lockW, rsubOther, sessionVars, notifyVars, answerVars, sig,
                   iceVars, closeVars, negVars, workerVars, trackVars, produced>>

\* op.AddSubscriber(p), line 304 for the one track op has published: the
\* track attaches a down track to p through p.addDownTrack (253-260).
RSubAttach ==
    /\ rsubPc = "call"
    /\ \E d \in DTs : Attach(d)
    /\ rsubPc' = "ret"
    /\ UNCHANGED <<lockVars, rsubOther>>

\* op.AddSubscriber(p), line 308 and the deferred RUnlock.
RSubReturn ==
    /\ ~panicked
    /\ rsubPc = "ret"
    /\ lockR' = [lockR EXCEPT !["op"] = @ \ {RSubHolder}]
    /\ rsubPc' = "done"
    /\ UNCHANGED <<lockW, rsubOther, sessionVars, notifyVars, answerVars, sig,
                   iceVars, closeVars, negVars, workerVars, trackVars, produced>>

protoOther == <<tickVars, relayLog, relayErrs, burstWrites, startVars, lockVars, pubVars, subVars, rsubPc, sessionVars,
                notifyVars, answerVars, sig, iceVars, closeVars, negVars,
                workerVars, trackVars, produced>>

\* ToProto lines 138-143: the ParticipantInfo is filled from p.id, p.name
\* and p.state; no lock is taken.
ProtoBegin ==
    /\ ~panicked
    /\ protoPc = "idle"
    /\ protoPc' = "iter"
    /\ UNCHANGED <<protoSeen, protoOther>>

\* ToProto lines 144-146: one iteration of the range over p.tracks.
ProtoRead(x) ==
    /\ ~panicked
    /\ protoPc = "iter"
    /\ x \in tracks \ protoSeen
    /\ protoSeen' = protoSeen \cup {x}
    /\ UNCHANGED <<protoPc, protoOther>>

\* ToProto line 147: return info.
ProtoEnd ==
    /\ ~panicked
    /\ protoPc = "iter"
    /\ tracks \subseteq protoSeen
    /\ protoPc' = "done"
    /\ UNCHANGED <<protoSeen, protoOther>>

\* ----------------------------------------------------- specifications
AnswerStep ==
    \/ AnswerSetRemote \/ AnswerCreate \/ AnswerSetLocal \/ AnswerArm
    \/ AnswerSend \/ AnswerReadState \/ AnswerUpdCheck \/ AnswerUpdOld
    \/ AnswerUpdStore

IceStep ==
    \E i \in ICEs :
      \/ IceConnected(i) \/ IceUpdCheck(i) \/ IceUpdOld(i) \/ IceUpdStore(i)

CloseStep ==
    \E c \in Closers :
      \/ CloseGuard(c) \/ CloseChannel(c) \/ CloseUpdCheck(c) \/ CloseUpdOld(c)
      \/ CloseUpdStore(c) \/ CloseOnClose(c) \/ CloseCancel(c)
      \/ ClosePeerConn(c)

NotifyStep == \E w \in pending : Notify(w)

NegStep ==
    \/ \E n \in Negs :
         NegFire(n) \/ NegCreateOffer(n) \/ NegSetLocal(n) \/ NegSend(n)
    \/ \E h \in HNegs :
         HNegSetRemote(h) \/ HNegCreate(h) \/ HNegSetLocal(h) \/ HNegSend(h)

WorkerStep ==
    \/ \E s \in Starters : Start(s)
    \/ RelayRecv \/ RelayWrite \/ PeriodicSnapshot \/ PeriodicBatch
    \/ Produce

TrackStep ==
    \E d \in DTs :
      \/ AddDownTrack(d) \/ RemoveDownTrack(d) \/ Bind(d)
      \/ BurstSnapshot(d) \/ BurstWrite(d)

PubStep ==
    \E e \in Pubs :
      \/ OnMediaTrack(e) \/ OnDataChannel(e) \/ DataLock(e) \/ DataInsert(e)
      \/ DataStart(e) \/ HandleLock(e) \/ HandleInsert(e) \/ HandleStart(e)

SubStep ==
    \/ \E target \in Sessions : SubRLock(target)
    \/ \E t \in Pubs, fails \in BOOLEAN : SubNext(t, fails)
    \/ SubCall \/ SubCheck \/ SubReturn

RSubStep == RSubRLock \/ RSubAttach \/ RSubReturn

ProtoStep == ProtoBegin \/ (\E x \in tracks : ProtoRead(x)) \/ ProtoEnd

\* Every step is guarded by ~panicked: a panic ends the process and no
\* goroutine takes another step.
Next ==
    \/ AnswerStep \/ IceStep \/ CloseStep \/ NotifyStep
    \/ NegStep \/ WorkerStep \/ TrackStep \/ PubStep
    \/ SubStep \/ RSubStep \/ ProtoStep

Spec == Init /\ [][Next]_vars


\* The scenario specifications below take the same steps as Spec, restricted
\* to the goroutines of one concern; every behaviour of a scenario is a
\* behaviour of Spec, so a state a scenario reaches is a state the program
\* reaches.

\* Session state machine: Answer, the ICE callbacks, Close and the notifier
\* goroutines.
NextState == AnswerStep \/ IceStep \/ CloseStep \/ NotifyStep

SpecState == Init /\ [][NextState]_vars

\* Negotiation: Answer, the negotiation-needed handler and HandleNegotiate.
NextNeg == AnswerStep \/ NegStep

SpecNeg == Init /\ [][NextNeg]_vars

\* RTCP without producers: Start, the two workers, the down tracks with
\* their binding bursts, and Close.
NextRtcp ==
    \/ \E s \in Starters : Start(s)
    \/ RelayRecv \/ PeriodicSnapshot \/ PeriodicBatch
    \/ TrackStep \/ CloseStep

SpecRtcp == Init /\ [][NextRtcp]_vars

\* The Go scheduler runs every runnable goroutine eventually: each worker,
\* each burst goroutine and each caller of Close keeps taking its steps.
FairRtcp ==
    /\ SpecRtcp
    /\ WF_vars(RelayRecv)
    /\ WF_vars(PeriodicSnapshot \/ PeriodicBatch)
    /\ WF_vars(CloseStep)
    /\ WF_vars(\E d \in DTs : BurstSnapshot(d) \/ BurstWrite(d))

\* Workers: the callers of Start, the two workers (no down track is attached),
\* the producers and Close.
NextRelay ==
    \/ \E s \in Starters : Start(s)
    \/ RelayRecv \/ RelayWrite \/ Produce
    \/ PeriodicSnapshot \/ PeriodicBatch
    \/ CloseStep

SpecRelay == Init /\ [][NextRelay]_vars

\* Publication and fan-out: the publish events and the operations that
\* read the registry of published tracks.
NextPub == PubStep

SpecPub == Init /\ [][NextPub]_vars

\* One AddSubscriber call against the publish events.
NextSub == PubStep \/ SubStep

SpecSub == Init /\ [][NextSub]_vars

\* Two sessions subscribing each other.
NextCross == PubStep \/ SubStep \/ RSubStep

SpecCross == Init /\ [][NextCross]_vars

FairCross ==
    /\ SpecCross
    /\ WF_vars(PubStep) /\ WF_vars(SubStep) /\ WF_vars(RSubStep)

\* One ToProto call against the publish events.
NextProto == PubStep \/ ProtoStep

SpecProto == Init /\ [][NextProto]_vars

\* The periodic worker of a session that has down tracks, against Close.
NextTick == (\E s \in Starters : Start(s)) \/ PeriodicSnapshot \/ PeriodicBatch \/ CloseStep

SpecTick == InitTick /\ [][NextTick]_vars

\* ------------------------------------------------------------- claims
Effective(k) == writes[k].from # writes[k].to

\* C1: every effective change of the state between two states other than
\* DISCONNECTED is JOINING -> JOINED or JOINED -> ACTIVE.
C1_ForwardOnly ==
    \A k \in 1..Len(writes) :
      (Effective(k) /\ writes[k].from # DISCONNECTED /\ writes[k].to # DISCONNECTED)
        => <<writes[k].from, writes[k].to>> \in {<<JOINING, JOINED>>, <<JOINED, ACTIVE>>}

\* C2: once the state is DISCONNECTED no step changes it again or produces
\* a state-change notification.
C2_DisconnectedTerminal ==
    [][state = DISCONNECTED => (state' = DISCONNECTED /\ writes' = writes)]_vars

\* C3: among any number of Close callers the teardown is performed once:
\* rtcpCh is closed once (no caller panics closing it again), OnClose and
\* peerConn.Close run once, and one caller only returns the teardown's result.
C3_CloseIdempotent ==
    /\ \A c \in Closers : closePc[c] # "panic"
    /\ onCloseCalls <= 1
    /\ pcCloseCalls <= 1
    /\ Cardinality({c \in Closers : closeRet[c] = "closed"}) <= 1

\* C4: no WriteRTCP call begins while the state is DISCONNECTED.
C4_NoRtcpAfterDisconnected ==
    lastWrite.by # "none" => lastWrite.st # DISCONNECTED

CloseCompleted == \E c \in Closers : closeRet[c] = "closed"

\* C5: once Close has completed on a started session, both workers
\* eventually terminate.
C5_CloseTerminatesWorkers ==
    (started /\ CloseCompleted) ~> (panicked \/ (relayPc = "done" /\ periodicPc = "done"))

\* Exchanges between their first transport step and their signaling send.
NegInFlight  == {n \in Negs : negPc[n] \in {"setLocal", "send"}}
HNegInFlight == {h \in HNegs : hnegPc[h] \in {"createAnswer", "setLocal", "send"}}

\* C6: at most one offer/answer exchange of the session is in flight.
C6_OneExchangeInFlight ==
    Cardinality(NegInFlight) + Cardinality(HNegInFlight) <= 1

\* C7: every server-generated offer on the signaling channel is preceded by
\* the initial answer.
C7_OfferAfterAnswer ==
    \A k \in 1..Len(sig) :
      sig[k] = "offer" => \E j \in 1..(k - 1) : sig[j] = "answer"

\* C8: an Answer that returns an error has not changed the session state.
C8_FailedAnswerKeepsState ==
    (ansPc = "done" /\ ansErr # "nil") => ~ansChanged

\* C9: every notification belongs to an effective state change and carries
\* the state that change replaced.
C9_NotifyOncePerChange ==
    \A k \in 1..Len(writes) : Effective(k) /\ writes[k].old = writes[k].from

\* C10: the observer's invocations begin in the order of the transitions.
C10_NotifyInOrder ==
    \A i, j \in 1..Len(observed) :
      (i < j /\ Effective(observed[i]) /\ Effective(observed[j]))
        => observed[i] < observed[j]

\* C11: whatever the number of Start calls, one rtcpSendWorker and one
\* downTracksRTCPWorker are spawned, and they are once a call has returned.
C11_StartOnce ==
    /\ relayStarts <= 1
    /\ periodicStarts <= 1
    /\ (\E s \in Starters : startPc[s] = "done")
         => (relayStarts = 1 /\ periodicStarts = 1)

\* Two calls of Start have returned and one worker of each kind runs.
C11_Witness ==
    /\ Cardinality({s \in Starters : startPc[s] = "done"}) >= 2
    /\ relayStarts = 1
    /\ periodicStarts = 1


\* The publish event e has passed a store into p.tracks.
Inserted(e) ==
    \/ pubPc[e] \in {"dStart", "hStart"}
    \/ pubKind[e] = "data" /\ pubPc[e] \in {"hLock", "hInsert"}
    \/ pubKind[e] \in {"media", "data"} /\ pubPc[e] = "done"

\* C12: whatever the sequence and interleaving of publish events with
\* distinct track ids, the registry holds exactly the tracks published so
\* far, one entry per track and each under its own id; a data channel with
\* the reserved private label adds no entry and writes no "track
\* published" confirmation.
C12_RegistryExact ==
    /\ \A x \in tracks : x[1] = TrackID(x[2])
    /\ Cardinality(Keys(tracks)) = Cardinality(tracks)
    /\ \A e \in Pubs : (<<TrackID(e), e>> \in tracks) <=> Inserted(e)
    /\ \A e \in Pubs : pubKind[e] = "private" =>
          /\ TrackID(e) \notin Keys(tracks)
          /\ confirms[e] = 0

C12_Witness ==
    /\ \A e \in Pubs : pubPc[e] = "done"
    /\ \A k \in {"media", "data", "private"} : \E e \in Pubs : pubKind[e] = k
    /\ Cardinality(tracks) = 2

\* C13: the start hook of every published track, media or data, is called
\* exactly once, and only after the track is in the registry.
C13_StartHookOnce ==
    \A e \in Pubs :
      /\ startHook[e] <= 1
      /\ startHook[e] >= 1 => <<TrackID(e), e>> \in tracks
      /\ (pubPc[e] = "done" /\ pubKind[e] # "private") => startHook[e] = 1

\* C14: AddSubscriber calls the tracks one at a time; the first failure ends
\* the call with the error, the tracks called before it keep the
\* subscriber and no other track is called; without a failure the call
\* returns nil with the subscriber on every one of the N tracks.
C14_FirstFailureAborts ==
    /\ Cardinality(Range(subOrder)) = Len(subOrder)
    /\ subs \subseteq Range(subOrder)
    /\ subPc \in {"iter", "call", "check"} => Keys(tracks) = subN
    /\ subPc = "done" <=> subRet # "none"
    /\ subRet = "error" =>
          /\ Len(subOrder) >= 1
          /\ subCur = subOrder[Len(subOrder)]
          /\ subs = {subOrder[k] : k \in 1..(Len(subOrder) - 1)}
    /\ subRet = "nil" => (subs = subN /\ Range(subOrder) = subN)

C14_Witness ==
    /\ subRet = "error"
    /\ Len(subOrder) = 2
    /\ Cardinality(subs) = 1
    /\ Cardinality(subN) = 3

\* ceil(m / sdBatchSize)
CeilBatches(m) == (m + sdBatchSize - 1) \div sdBatchSize

\* Every sender report of the tick is in its first write.
SROnlyInFirst ==
    \A k \in 1..Len(tickSR) : tickSR[k] = IF k = 1 THEN tickM ELSE 0

TickOver == tickState \in {"complete", "closed"}

\* C15: a tick of the periodic report worker that saw M bound down tracks
\* makes exactly ceil(M / 20) writes (none for M = 0), with every sender
\* report in the first write and none in a later one; unbound down tracks
\* count for nothing.
C15_TickWrites ==
    TickOver => (Len(tickSR) = CeilBatches(tickM) /\ SROnlyInFirst)

\* C15, amended: the count is exact for a tick in which no write reports
\* the transport closed; a write that does is the last one of the tick and
\* of the worker, so such a tick makes at least one and at most
\* ceil(M / 20) writes.  The sender reports are in the first write in both
\* cases.
C15_TickWritesUnlessClosed ==
    /\ tickState # "none" => tickM = Cardinality(bound)
    /\ SROnlyInFirst
    /\ Len(tickSR) <= CeilBatches(tickM)
    /\ tickState = "complete" => Len(tickSR) = CeilBatches(tickM)
    /\ tickState = "closed" => (Len(tickSR) >= 1 /\ pcClosed)

C15_Witness ==
    /\ tickState = "complete"
    /\ tickM > 2 * sdBatchSize
    /\ Len(downTracks) > tickM
    /\ Len(tickSR) = 3

\* C16: the burst started for a bound down track calls WriteRTCP exactly 6
\* times and then stops, whatever the writes return.
C16_BurstSixWrites ==
    \A d \in DTs :
      /\ burstWrites[d] <= 6
      /\ burstPc[d] = "done" => burstWrites[d] = 6

\* The batch the relay worker has received and not yet written.
RelayInFlight == IF relayPc = "write" THEN <<relayBatch>> ELSE <<>>

\* C17: the batches written, the one in the worker's hands and the ones
\* queued are the batches enqueued, in the order of enqueueing, each once;
\* the queue never holds more than 10; write errors do not stop the worker;
\* the worker ends only on a closed and drained queue.
C17_RelayFifo ==
    /\ relayLog \o RelayInFlight \o rtcpQ = [k \in 1..produced |-> k]
    /\ Len(rtcpQ) <= RtcpChCap
    /\ relayErrs <= Len(relayLog)
    /\ relayPc = "done" =>
          (rtcpClosed /\ rtcpQ = <<>> /\ Len(relayLog) = produced)

C17_Witness ==
    /\ relayPc = "done"
    /\ produced > RtcpChCap
    /\ Len(relayLog) = produced
    /\ relayErrs >= 1

\* C19: no send is made on rtcpCh once Close has closed it: the only
\* panic of the session is not a send on the closed channel.
C19_NoSendAfterClose ==
    panicked => \E c \in Closers : closePc[c] = "panic"

\* A publish event is inside the critical section of its store into
\* p.tracks.
Writers == {e \in Pubs : pubPc[e] \in {"dInsert", "hInsert"}}

\* An operation is in the middle of its pass over p.tracks.
Reading == protoPc = "iter" \/ subPc \in {"iter", "call", "check"}

\* C18: no operation reads a registry map while another is in the course
\* of writing it, and no two writers overlap.
C18_MapsUnderLock ==
    /\ Cardinality(Writers) <= 1
    /\ ~(Reading /\ Writers # {})

\* C20: a call of AddSubscriber that has started returns, whether the two
\* sessions subscribe each other at the same time or a session subscribes
\* itself.
C20_FanoutReturns ==
    /\ (subPc # "idle") ~> (subPc = "done")
    /\ (rsubPc # "idle") ~> (rsubPc = "done")
=============================================================================
